---- MODULE Spec2Model ----
(***************************************************************************)
(* forest: the per-connection HTTP pipeline (forest/protocol.py) and the   *)
(* path-template router (forest/routers.py).                               *)
(*                                                                         *)
(* Bytes are modelled as lexemes.  One lexeme of the wire is one unit of   *)
(* len(data): the method, one url byte, the version, one header line, the  *)
(* blank line ending the headers, one body byte.  None and a missing       *)
(* attribute are the records None and Unset.                               *)
(***************************************************************************)
EXTENDS Integers, Sequences, FiniteSets, TLC

\* ------------------------------------------------------------------ bounds
\* Messages a peer sends on one connection.
MaxMsgs == 2

\* Routes registered, and characters of a request path.
MaxRoutes == 2
MaxPathLen == 4
MaxChunks == 3
MaxReads == 2
MaxActive == 2
MaxWaiters == 2
MaxServers == 2

\* HttpProtocolMixin.request_max_size, scaled from 65535 to lexemes.
request_max_size == 8

\* ------------------------------------------------------------------ values
None == [k |-> "None"]
Unset == [k |-> "unset"]

Bytes(s) == [k |-> "bytes", v |-> s]
List(s) == [k |-> "list", v |-> s]

Min(a, b) == IF a < b THEN a ELSE b

IsSuffix(s, t) == Len(s) <= Len(t) /\ SubSeq(t, Len(t) - Len(s) + 1, Len(t)) = s

\* ------------------------------------------------------------------ the wire
Hdr(name, value, n) == [name |-> name, value |-> value, n |-> n]

HostHdr == Hdr("Host", "h", 0)
CL2Hdr == Hdr("Content-Length", "2", 2)
CLBigHdr == Hdr("Content-Length", "9", request_max_size + 1)

Msg(method, url, ver, hdrs, body) ==
    [bad |-> FALSE, method |-> method, url |-> url, ver |-> ver, hdrs |-> hdrs, body |-> body]

\* GET / HTTP/1.1
MGet == Msg("GET", <<"/">>, "1.1", <<>>, <<>>)
\* POST /b HTTP/1.1, Content-Length: 2, body xy: exactly request_max_size lexemes
MPost == Msg("POST", <<"/", "b">>, "1.1", <<CL2Hdr>>, <<"x", "y">>)
\* the same with a Host header: one lexeme more than request_max_size
MLong == Msg("POST", <<"/", "b">>, "1.1", <<HostHdr, CL2Hdr>>, <<"x", "y">>)
\* GET / HTTP/1.0: the tokenizer reports should_keep_alive() = False
MOld == Msg("GET", <<"/">>, "1.0", <<>>, <<>>)
\* declares a Content-Length above request_max_size and sends one body byte
MBig == Msg("POST", <<"/">>, "1.1", <<CLBigHdr>>, <<"x">>)
\* a request line the tokenizer rejects
MBad == [bad |-> TRUE, method |-> "", url |-> <<>>, ver |-> "", hdrs |-> <<>>, body |-> <<>>]

Messages == {MGet, MPost, MLong, MOld, MBig, MBad}

Tok(t, a, b, n, m) == [t |-> t, a |-> a, b |-> b, n |-> n, m |-> m]

\* The lexemes of message msg, the m-th of its connection.
Wire(msg, m) ==
    IF msg.bad THEN << Tok("bad", "", "", 0, m) >>
    ELSE << Tok("method", msg.method, "", 0, m) >>
         \o [i \in 1..Len(msg.url) |-> Tok("url", msg.url[i], "", 0, m)]
         \o << Tok("ver", msg.ver, "", 0, m) >>
         \o [i \in 1..Len(msg.hdrs) |->
                Tok("hdr", msg.hdrs[i].name, msg.hdrs[i].value, msg.hdrs[i].n, m)]
         \o << Tok("eoh", "", "", 0, m) >>
         \o [i \in 1..Len(msg.body) |-> Tok("body", msg.body[i], "", 0, m)]

RECURSIVE WireAll(_, _)
WireAll(msgs, from) ==
    IF from > Len(msgs) THEN <<>>
    ELSE Wire(msgs[from], from) \o WireAll(msgs, from + 1)

Streams == UNION {[1..n -> Messages] : n \in 1..MaxMsgs}

\* ------------------------------------------------------------------ state
VARIABLES
    parser,       \* self.parser: the tokenizer, or None
    request,      \* self.request: Unset until first assigned
    url,          \* self.url
    headers,      \* self.headers
    task,         \* self._request_handler_task: index into tasks, 0 for None
    size,         \* self._total_request_size
    registered,   \* self in self.connections
    made,         \* connection_made has run: self.transport is set
    out,          \* the calls of transport.write, in order
    closed,       \* the transport is closed
    closeCalls,   \* the calls of transport.close
    tasks,        \* the dispatch units created by on_message_complete
    raised,       \* the exception that escaped the last callback, or "none"
    lost,         \* connection_lost has run
    logged,       \* the calls of log.error
    over,         \* messages for which data_received found the size above the cap
    overHdr,      \* messages for which on_header found Content-Length above the cap
    cur,          \* the message the bytes being processed belong to
    stopped,      \* Signal.stopped
    peer,         \* transport.get_extra_info('peername') is not None
    sent,         \* the messages the peer sends on this connection
    stream,       \* lexemes the peer has not delivered yet
    fed,          \* lexemes passed to data_received so far
    routes,       \* Router.routes
    not_found,    \* Router.not_found
    regErr,       \* what the register call just made raised, or "none"
    regTpl,       \* the template of the register call just made
    mstate,       \* the RouteMatch of the match pass
    mpath,        \* request.path of the match pass
    mi,           \* the route the loop of Router.match is at
    mres,         \* "idle", "running", or what Router.match returned
    tried,        \* the routes the pass has asked, with their answers
    dcall,        \* the handler call of Router.handler: handler and arguments
    dres,         \* what Router.handler gave response_writer, or what it raised
    chunks,       \* the arguments of the on_body calls of RequestSpec, in order
    reads,        \* what the accesses of request.data gave, in order
    hp,           \* an HTTPParser of httpparser, its input and its last execute call
    srv           \* a Server of uv

connVars == << parser, request, url, headers, task, size, out, closed, closeCalls,
               tasks, raised, logged, over, overHdr, cur >>
envVars == << registered, made, lost, stopped, peer, sent, stream, fed >>
routerVars == << routes, not_found, regErr, regTpl, mstate, mpath, mi, mres, tried,
                dcall, dres >>
reqVars == << chunks, reads >>
libVars == << hp, srv >>
vars == << connVars, envVars, routerVars, reqVars, libVars >>

\* The fields the callbacks read and write, as one value.
Conn ==
    [parser |-> parser, request |-> request, url |-> url, headers |-> headers,
     task |-> task, size |-> size, out |-> out, closed |-> closed,
     closeCalls |-> closeCalls, tasks |-> tasks, raised |-> raised,
     logged |-> logged, over |-> over, overHdr |-> overHdr, cur |-> cur]

Install(c) ==
    /\ parser' = c.parser
    /\ request' = c.request
    /\ url' = c.url
    /\ headers' = c.headers
    /\ task' = c.task
    /\ size' = c.size
    /\ out' = c.out
    /\ closed' = c.closed
    /\ closeCalls' = c.closeCalls
    /\ tasks' = c.tasks
    /\ raised' = c.raised
    /\ logged' = c.logged
    /\ over' = c.over
    /\ overHdr' = c.overHdr
    /\ cur' = c.cur

\* ------------------------------------------------------------------ tokenizer
\* HttpRequestParser(self): nothing parsed yet, version 0.0.
HttpRequestParser ==
    [k |-> "parser", st |-> "start", ver |-> "0.0", method |-> "", close |-> FALSE,
     need |-> 0, nmsg |-> 0, born |-> "init"]

\* parser.should_keep_alive(): HTTP/1.1 without Connection: close.
should_keep_alive(p) == p.ver = "1.1" /\ ~p.close

\* The state after a message: a tokenizer that must not keep alive is dead.
AfterMessage(p) == [p EXCEPT !.st = IF should_keep_alive(p) THEN "start" ELSE "dead"]

\* ------------------------------------------------------------------ transport
transport_write(c, entry) ==
    [c EXCEPT !.out = Append(@, entry @@ [afterClose |-> c.closed, sig |-> stopped])]

transport_close(c) ==
    [c EXCEPT !.closed = TRUE, !.closeCalls = @ + 1]

\* ------------------------------------------------------------------ protocol
\* cleanup that leaves the header list and the tokenizer in place.
cleanup_keeps_headers(c) ==
    [c EXCEPT !.request = None, !.url = None, !.task = 0, !.size = 0]

cleanup(c) ==
    [c EXCEPT !.parser = None, !.request = None, !.url = None, !.headers = None,
              !.task = 0, !.size = 0]

\* write_error: reading self.request before it was ever assigned raises, the
\* handler calls bail_out, which calls write_error again: the recursion ends
\* in RecursionError, nothing is written or closed.
write_error(c, exception) ==
    IF c.request = Unset
    THEN [c EXCEPT !.raised = "RecursionError"]
    ELSE transport_close(
           transport_write(c,
              [kind |-> "error", what |-> exception, m |-> c.cur,
               version |-> IF c.request # None THEN c.request.version ELSE "1.1",
               keep_alive |-> FALSE]))

bail_out(c, message) ==
    LET c1 == write_error(c, "ServerError")
    IN IF c1.raised # "none" THEN c1 ELSE [c1 EXCEPT !.logged = @ + 1]

on_url(c, u) == [c EXCEPT !.url = Bytes(u)]

on_header(c, name, value, n) ==
    LET c1 == IF name = "Content-Length" /\ n > request_max_size
              THEN write_error([c EXCEPT !.overHdr = @ \cup {c.cur}], "PayloadTooLarge")
              ELSE c
    IN IF c1.raised # "none" THEN c1
       ELSE IF c1.headers = None THEN [c1 EXCEPT !.raised = "AttributeError"]
       ELSE [c1 EXCEPT !.headers = List(Append(@.v, << name, value >>))]

\* dict(pairs): a later pair of the same key replaces the value in place.
RECURSIVE CIMultiDict(_)
CIMultiDict(pairs) ==
    IF pairs = <<>> THEN <<>>
    ELSE LET n == Len(pairs)
             init == CIMultiDict(SubSeq(pairs, 1, n - 1))
             last == pairs[n]
         IN IF \E i \in 1..Len(init) : init[i][1] = last[1]
            THEN [i \in 1..Len(init) |-> IF init[i][1] = last[1] THEN last ELSE init[i]]
            ELSE Append(init, last)

\* d[key] on the dict subclass: the entry whose key equals key exactly, or
\* KeyError.
getitem(d, key) ==
    IF \E i \in DOMAIN d : d[i][1] = key
    THEN [k |-> "value", v |-> d[CHOOSE i \in DOMAIN d : d[i][1] = key][2]]
    ELSE [k |-> "KeyError"]

\* httptools.parse_url: the path up to the first '?', the query after it, None
\* when there is none.
parse_url(url_bytes) ==
    LET qs == {i \in DOMAIN url_bytes : url_bytes[i] = "?"}
        q == IF qs = {} THEN Len(url_bytes) + 1 ELSE CHOOSE i \in qs : \A j \in qs : i <= j
    IN [k |-> "URL", path |-> SubSeq(url_bytes, 1, q - 1),
        query |-> IF q >= Len(url_bytes) THEN None
                  ELSE Bytes(SubSeq(url_bytes, q + 1, Len(url_bytes)))]

Request(url_bytes, hdrs, version, method, m, first) ==
    LET url_parsed == parse_url(url_bytes)
    IN [k |-> "Request", url |-> url_bytes, headers |-> hdrs, version |-> version,
        method |-> method,
        query_string |-> IF url_parsed.query # None THEN url_parsed ELSE None,
        body |-> None, parsed_json |-> None, m |-> m, first |-> first]

on_headers_complete(c) ==
    LET hs == IF peer THEN Append(c.headers.v, << "Remote-Addr", "peer" >>)
              ELSE c.headers.v
    IN IF c.url = None THEN [c EXCEPT !.raised = "TypeError"]
       ELSE [c EXCEPT !.headers = List(hs),
                      !.request = Request(c.url.v, CIMultiDict(hs), c.parser.ver,
                                          c.parser.method, c.cur,
                                          IF c.parser.nmsg = 1 THEN c.parser.born ELSE "no")]

\* on_body that assigns the chunk whatever the body holds.
on_body_replaces(c, body) ==
    IF c.request \in {None, Unset} THEN [c EXCEPT !.raised = "AttributeError"]
    ELSE [c EXCEPT !.request.body = Bytes(body)]

on_body(c, body) ==
    IF c.request \in {None, Unset} THEN [c EXCEPT !.raised = "AttributeError"]
    ELSE IF c.request.body # None /\ c.request.body.v # <<>>
    THEN [c EXCEPT !.request.body = Bytes(@.v \o body)]
    ELSE [c EXCEPT !.request.body = Bytes(body)]

on_message_complete(c) ==
    [c EXCEPT !.tasks = Append(@, [m |-> c.cur, req |-> c.request, st |-> "pending"]),
              !.task = Len(c.tasks) + 1]

\* The tokenizer's error is httptools' HttpParserError; a callback's exception
\* leaves feed_data as well.
ParseError(c) == [c EXCEPT !.raised = "httptools.HttpParserError"]

MessageDone(c) ==
    on_message_complete([c EXCEPT !.parser = AfterMessage(@)])

\* parser.feed_data(data) from lexeme i on: the callbacks in the order the
\* tokenizer emits them.  Url bytes and body bytes are handed over once per
\* contiguous run inside data, so a run cut by the end of data gives fragments.
RECURSIVE feed_data(_, _, _)
feed_data(c, data, i) ==
    IF i > Len(data) \/ c.raised # "none" THEN c
    ELSE
      LET tok == data[i]
          p == c.parser
          c0 == [c EXCEPT !.cur = tok.m]
      IN CASE p.st = "body" ->
                LET k == Min(p.need, Len(data) - i + 1)
                    chunk == [j \in 1..k |-> data[i + j - 1].a]
                    c1 == on_body([c0 EXCEPT !.parser.need = @ - k], chunk)
                    c2 == IF c1.raised = "none" /\ c1.parser.need = 0
                          THEN MessageDone(c1) ELSE c1
                IN feed_data(c2, data, i + k)
           [] p.st = "start" /\ tok.t = "method" ->
                feed_data([c0 EXCEPT !.parser.st = "url", !.parser.method = tok.a,
                                     !.parser.close = FALSE, !.parser.need = 0,
                                     !.parser.nmsg = @ + 1],
                          data, i + 1)
           [] p.st = "url" /\ tok.t = "url" ->
                LET j == CHOOSE e \in i..Len(data) :
                            /\ \A q \in i..e : data[q].t = "url"
                            /\ e = Len(data) \/ data[e + 1].t # "url"
                    frag == [q \in 1..(j - i + 1) |-> data[i + q - 1].a]
                IN feed_data(on_url(c0, frag), data, j + 1)
           [] p.st = "url" /\ tok.t = "ver" ->
                feed_data([c0 EXCEPT !.parser.ver = tok.a, !.parser.st = "hdr"],
                          data, i + 1)
           [] p.st = "hdr" /\ tok.t = "hdr" ->
                LET p1 == IF tok.a \in {"Content-Length", "content-length"}
                          THEN [p EXCEPT !.need = tok.n]
                          ELSE IF tok.a = "Connection" /\ tok.b = "close"
                          THEN [p EXCEPT !.close = TRUE]
                          ELSE p
                IN feed_data(on_header([c0 EXCEPT !.parser = p1], tok.a, tok.b, tok.n),
                             data, i + 1)
           [] p.st = "hdr" /\ tok.t = "eoh" ->
                LET c1 == on_headers_complete(c0)
                    c2 == IF c1.raised # "none" THEN c1
                          ELSE IF p.need = 0 THEN MessageDone(c1)
                          ELSE [c1 EXCEPT !.parser.st = "body"]
                IN feed_data(c2, data, i + 1)
           [] OTHER -> ParseError(c0)

data_received(c, data) ==
    LET c1 == [c EXCEPT !.size = @ + Len(data)]
        c2 == IF c1.size > request_max_size
              THEN write_error([c1 EXCEPT !.over = @ \cup {c1.cur}], "PayloadTooLarge")
              ELSE c1
        c3 == IF c2.parser # None THEN c2
              ELSE IF c2.request # None THEN [c2 EXCEPT !.raised = "AssertionError"]
              ELSE [c2 EXCEPT !.headers = List(<<>>),
                              !.parser = [HttpRequestParser EXCEPT !.born = "reset"]]
        c4 == IF c3.raised # "none" THEN c3 ELSE feed_data(c3, data, 1)
    IN IF c4.raised = "forest.exceptions.HttpParserError"
       THEN write_error([c4 EXCEPT !.raised = "none"], "InvalidUsage")
       ELSE c4

\* response_writer that takes the tokenizer's answer alone for keep_alive.
response_writer_ignores_signal(c, response) ==
    IF c.parser = None \/ c.request \in {None, Unset}
    THEN bail_out(c, "Writing response failed, connection closed")
    ELSE LET keep_alive == should_keep_alive(c.parser)
             c1 == transport_write(c,
                      [kind |-> "response", what |-> response.what, m |-> response.m,
                       version |-> c.request.version, keep_alive |-> keep_alive])
         IN IF ~keep_alive THEN transport_close(c1) ELSE cleanup(c1)

response_writer(c, response) ==
    IF c.parser = None \/ c.request \in {None, Unset}
    THEN bail_out(c, "Writing response failed, connection closed")
    ELSE LET keep_alive == should_keep_alive(c.parser) /\ ~stopped
             c1 == transport_write(c,
                      [kind |-> "response", what |-> response.what, m |-> response.m,
                       version |-> c.request.version, keep_alive |-> keep_alive])
         IN IF ~keep_alive THEN transport_close(c1) ELSE cleanup(c1)

\* close_if_idle: what it returns and the connection after it.  The test is
\* on self.parser alone, which is None only between cleanup and the next
\* data_received.
close_if_idle(c) ==
    IF c.parser = None THEN [ret |-> TRUE, c |-> transport_close(c)]
    ELSE [ret |-> FALSE, c |-> c]

\* The event loop's answer to an exception that leaves data_received: the
\* transport is closed without a call of the protocol.
fatal_error(c) == IF c.raised # "none" THEN [c EXCEPT !.closed = TRUE] ELSE c

\* ------------------------------------------------------------------ router
\* A template and a path are sequences of lexemes: one character each, except
\* the segment pattern [0-9]+, which is one lexeme.
Handler(name) == [k |-> "handler", name |-> name]
not_found_handler == Handler("not_found")
Handlers == {Handler("h1"), Handler("h2")}

\* Two Router instances, as two Forest applications create them, each
\* registering the view function of its application.
Routers == {"r1", "r2"}
HandlerOf(router) == IF router = "r1" THEN Handler("h1") ELSE Handler("h2")

\* /a   /{c}   /{c}/{i:[0-9]+}   /a}   /{a   /{}   /{:[0-9]+}
Templates ==
    { << "/", "a" >>,
      << "/", "{", "c", "}" >>,
      << "/", "{", "c", "}", "/", "{", "i", ":", "[0-9]+", "}" >>,
      << "/", "a", "}" >>,
      << "/", "{", "a" >>,
      << "/", "{", "}" >>,
      << "/", "{", ":", "[0-9]+", "}" >> }

\* Templates of literal text only, with and without a character of pattern
\* syntax.
LiteralTemplates ==
    { << "/", "a" >>,
      << "/", "." >>,
      << "/", "a", "." >> }

\* Request paths: the path of a request url starts with '/'.
PathChars == {"/", "a", "1"}
Paths == {p \in UNION {[1..n -> PathChars] : n \in 1..MaxPathLen} : p[1] = "/"}

Digits == {"0", "1", "2", "3", "4", "5", "6", "7", "8", "9"}

\* string[a:b]
Slice(string, a, b) == SubSeq(string, a + 1, b)

RECURSIVE Flatten(_)
Flatten(ss) == IF ss = <<>> THEN <<>> ELSE Head(ss) \o Flatten(Tail(ss))

Falsy(x) == x = None \/ (x.k \in {"list", "str", "tuple"} /\ x.v = <<>>)

\* braceIndices: positions count from 0, level/idx/idxs as in the loop.
RECURSIVE braceIndicesFrom(_, _, _, _, _)
braceIndicesFrom(string, i, level, idx, idxs) ==
    IF i >= Len(string) THEN [err |-> "none", idxs |-> idxs]
    ELSE LET s == string[i + 1]
         IN IF s = "{"
            THEN braceIndicesFrom(string, i + 1, level + 1,
                                  IF level + 1 = 1 THEN i ELSE idx, idxs)
            ELSE IF s = "}"
            THEN IF level - 1 = 0
                 THEN braceIndicesFrom(string, i + 1, 0, idx, Append(idxs, << idx, i + 1 >>))
                 ELSE IF level - 1 < 0
                 THEN [err |-> "ValueError", idxs |-> <<>>]
                 ELSE braceIndicesFrom(string, i + 1, level - 1, idx, idxs)
            ELSE braceIndicesFrom(string, i + 1, level, idx, idxs)

braceIndices(string) == braceIndicesFrom(string, 0, 0, 0, <<>>)

\* urllib.parse.quote of one lexeme: letters, digits, '.', '/' stay, the rest
\* is percent-encoded.
quote1(ch) ==
    CASE ch = "{" -> << "%", "7", "B" >>
      [] ch = "}" -> << "%", "7", "D" >>
      [] ch = ":" -> << "%", "3", "A" >>
      [] ch = "[0-9]+" -> << "%", "5", "B", "0", "-", "9", "%", "5", "D", "%", "2", "B" >>
      [] OTHER -> << ch >>

quote(raw) == Flatten([i \in DOMAIN raw |-> quote1(raw[i])])

\* The quoted text read as a pattern: '.' is any character, the others of
\* quote's output stand for themselves.
ReItems(text) ==
    [i \in DOMAIN text |->
        IF text[i] = "." THEN [k |-> "any", ch |-> "", name |-> <<>>, cls |-> ""]
        ELSE [k |-> "lit", ch |-> text[i], name |-> <<>>, cls |-> ""]]

\* (?P<name>patt) for the two segment patterns of the templates.
ReGroup(name, patt) ==
    [k |-> "group", ch |-> "", name |-> name,
     cls |-> IF patt = << "[0-9]+" >> THEN "digit" ELSE "nonslash"]

\* inner.split(':', 1)
SplitColon(inner) ==
    IF \E i \in DOMAIN inner : inner[i] = ":"
    THEN LET i == CHOOSE i \in DOMAIN inner :
                     inner[i] = ":" /\ \A j \in 1..(i - 1) : inner[j] # ":"
         IN << SubSeq(inner, 1, i - 1), SubSeq(inner, i + 1, Len(inner)) >>
    ELSE << inner >>

defaultPattern == << "[^/]+" >>

\* The loop of regexp over the brace pairs, then the trailing literal.  The
\* pattern starts with '^' and has no end anchor.
RECURSIVE regexpLoop(_, _, _, _, _)
regexpLoop(tpl, idxs, i, end, acc) ==
    IF i > Len(idxs)
    THEN [acc EXCEPT !.items = @ \o ReItems(quote(Slice(tpl, end, Len(tpl))))]
    ELSE LET left == idxs[i][1]
             right == idxs[i][2]
             raw == Slice(tpl, end, left)
             parts == SplitColon(Slice(tpl, left + 1, right - 1))
             name == parts[1]
             patt == IF Len(parts) = 2 /\ parts[2] # <<>> THEN parts[2] ELSE defaultPattern
         IN IF name = <<>> \/ patt = <<>>
            THEN [acc EXCEPT !.err = "ValueError"]
            ELSE regexpLoop(tpl, idxs, i + 1, right,
                    [acc EXCEPT !.items = @ \o ReItems(quote(raw)) \o << ReGroup(name, patt) >>,
                                !.names = Append(@, name)])

\* regexp(tpl): the RouteRegexp, or the ValueError raised.
regexp(tpl) ==
    LET idxs == braceIndices(tpl)
    IN IF idxs.err # "none"
       THEN [err |-> idxs.err, template |-> tpl, items |-> <<>>, names |-> <<>>]
       ELSE regexpLoop(tpl, idxs.idxs, 1, 0,
                       [err |-> "none", template |-> tpl, items |-> <<>>, names |-> <<>>])

InClass(ch, cls) == IF cls = "digit" THEN ch \in Digits ELSE ch # "/"

NoMatch == [ok |-> FALSE, caps |-> <<>>, end |-> 0]

\* The pattern matched at position pos of path as re does it: a group takes
\* as many characters as the rest of the pattern allows.
RECURSIVE MatchFrom(_, _, _, _)
MatchFrom(items, k, path, pos) ==
    IF k > Len(items) THEN [ok |-> TRUE, caps |-> <<>>, end |-> pos]
    ELSE LET it == items[k]
         IN CASE it.k = "lit" ->
                   IF pos <= Len(path) /\ path[pos] = it.ch
                   THEN MatchFrom(items, k + 1, path, pos + 1) ELSE NoMatch
              [] it.k = "any" ->
                   IF pos <= Len(path)
                   THEN MatchFrom(items, k + 1, path, pos + 1) ELSE NoMatch
              [] OTHER ->
                   LET good == {n \in 1..(Len(path) - pos + 1) :
                                  /\ \A q \in pos..(pos + n - 1) : InClass(path[q], it.cls)
                                  /\ MatchFrom(items, k + 1, path, pos + n).ok}
                   IN IF good = {} THEN NoMatch
                      ELSE LET n == CHOOSE x \in good : \A y \in good : y <= x
                               r == MatchFrom(items, k + 1, path, pos + n)
                           IN [r EXCEPT !.caps = << SubSeq(path, pos, pos + n - 1) >> \o @]

\* self.regexp.match(path): the pattern matches a prefix of path.
re_match(rr, path) == MatchFrom(rr.items, 1, path, 1).ok

\* self.regexp.findall(path): the pattern starts with '^', so at most the
\* match at the start; its entry is the matched text (no group), the group's
\* text (one group) or the tuple of the groups' texts.
findall(rr, path) ==
    LET r == MatchFrom(rr.items, 1, path, 1)
    IN IF ~r.ok THEN <<>>
       ELSE IF Len(rr.names) = 0 THEN << [k |-> "str", v |-> SubSeq(path, 1, r.end - 1)] >>
       ELSE IF Len(rr.names) = 1 THEN << [k |-> "str", v |-> r.caps[1]] >>
       ELSE << [k |-> "tuple", v |-> r.caps] >>

RouteMatch == [route |-> None, handler |-> None, vars |-> List(<<>>)]

\* Route(router, handler).path(tpl): the id-th route made.
\* RouteRegexpGroup(): the object created, addr telling one object from
\* another.  __init__ assigns local names only, the object has no attribute.
RouteRegexpGroup(addr) == [k |-> "RouteRegexpGroup", addr |-> addr]

\* Router.getRegexpGroup: parent is the class attribute None, which nothing
\* assigns, so the answer is None for every router.
Router_parent(router) == None
Router_getRegexpGroup(router) ==
    IF Router_parent(router) # None THEN Router_parent(router).regexp ELSE None

\* getRegexpGroup that hands every route the same object.
Route_getRegexpGroup_shared(self_regexp, router, addr) == RouteRegexpGroup(0)

\* Route.getRegexpGroup: the route's own object if it has one, else a new
\* one; with a parent context it would read host, path and queries of an
\* object that has no attributes.
Route_getRegexpGroup(self_regexp, router, addr) ==
    IF self_regexp # None THEN self_regexp
    ELSE LET group == Router_getRegexpGroup(router)
         IN IF group = None THEN RouteRegexpGroup(addr)
            ELSE [k |-> "raise", what |-> "AttributeError"]

\* Route(router, handler).path(tpl): the id-th Route object made, whose
\* context object is the id-th made.
Route(router, id, handler, rr) ==
    [k |-> "Route", parent |-> router, id |-> id, handler |-> handler,
     regexp |-> Route_getRegexpGroup(None, router, id),
     matchers |-> << rr >>]

RouteRegexp_match(rr, path) == re_match(rr, path)

\* Route.match that fills the match before it asks its matchers.
Route_match_fills_first(route, path, match) ==
    LET m1 == [match EXCEPT !.route = [k |-> "RouteRef", id |-> route.id],
                            !.handler = route.handler]
    IN [ok |-> \A j \in DOMAIN route.matchers : RouteRegexp_match(route.matchers[j], path),
        match |-> m1]

\* Route.match(request, match)
Route_match(route, path, match) ==
    IF \E j \in DOMAIN route.matchers : ~RouteRegexp_match(route.matchers[j], path)
    THEN [ok |-> FALSE, match |-> match]
    ELSE LET m == route.matchers[Len(route.matchers)]
             m1 == IF Falsy(match.route)
                   THEN [match EXCEPT !.route = [k |-> "RouteRef", id |-> route.id]]
                   ELSE match
             m2 == IF Falsy(m1.handler) THEN [m1 EXCEPT !.handler = route.handler] ELSE m1
             vs == findall(m, path)
             m3 == IF Falsy(m2.vars) /\ vs # <<>> THEN [m2 EXCEPT !.vars = vs[1]] ELSE m2
         IN [ok |-> TRUE, match |-> m3]

\* ------------------------------------------------------------------ actions
\* The protocol after __init__.
ProtocolInit ==
    /\ parser = HttpRequestParser
    /\ request = Unset
    /\ url = Bytes(<<>>)
    /\ headers = List(<<>>)
    /\ task = 0
    /\ size = 0
    /\ registered = FALSE
    /\ made = FALSE
    /\ out = <<>>
    /\ closed = FALSE
    /\ closeCalls = 0
    /\ tasks = <<>>
    /\ raised = "none"
    /\ lost = FALSE
    /\ logged = 0
    /\ over = {}
    /\ overHdr = {}
    /\ cur = 0
    /\ stopped = FALSE
    /\ fed = <<>>

\* Router(): the class-level route list is empty, not_found is the module's
\* not_found until the owner assigns another value.
RouterInit ==
    /\ routes = <<>>
    /\ regErr = "none"
    /\ regTpl = <<>>
    /\ mstate = RouteMatch
    /\ mpath = <<>>
    /\ mi = 0
    /\ mres = "idle"
    /\ tried = <<>>
    /\ dcall = None
    /\ dres = "none"

\* ------------------------------------------------------------------ httpparser
CALLBACKS ==
    {"on_message_begin", "on_url", "on_status", "on_header_field", "on_header_value",
     "on_headers_complete", "on_body", "on_message_complete"}

\* The callbacks registered with allow_failure: all but on_headers_complete,
\* whose return value 1 tells the library to skip the body.
allow_failure(name) == name # "on_headers_complete"

\* The callbacks the library makes for one message, in order, by parser type.
MessageCallbacks(type) ==
    << "on_message_begin", IF type = "request" THEN "on_url" ELSE "on_status",
       "on_header_field", "on_header_value", "on_headers_complete", "on_body",
       "on_message_complete" >>

RECURSIVE Repeat(_, _)
Repeat(s, n) == IF n = 0 THEN <<>> ELSE s \o Repeat(s, n - 1)

\* What a peer sends: one to MaxMsgs messages, each a lexeme per callback it
\* causes, then nothing or a lexeme that is not HTTP.
ParserInputs(type) ==
    {Repeat(MessageCallbacks(type), n) \o tail :
        n \in 1..MaxMsgs, tail \in {<<>>, << "bad" >>}}

\* The exception a callback of the subclass raises.
CallbackError(name) == [k |-> "ValueError", by |-> name]

NoException == [name \in CALLBACKS |-> None]

\* _call_http_cb: runs the callback; an exception is stored on the callback
\* and the library gets 1 (failure) if the callback may fail, else False.
call_http_cb(st, name, raising) ==
    IF name \in raising
    THEN [st EXCEPT !.last_exception[name] = CallbackError(name),
                    !.raisedIn = @ \cup {name},
                    !.ret = IF allow_failure(name) THEN 1 ELSE 0]
    ELSE [st EXCEPT !.ret = 0]

\* lib.http_parser_execute on the lexemes of data from the i-th on: a parser
\* in error takes nothing; a lexeme that is not HTTP sets the error and is not
\* taken; a callback answering non-zero sets the error cb_<name>, its lexeme
\* counting as taken; else all of data is taken.
RECURSIVE http_parser_execute(_, _, _, _)
http_parser_execute(st, data, i, raising) ==
    IF st.errno.k # "ok" THEN [st EXCEPT !.parsed = 0]
    ELSE IF i > Len(data) THEN [st EXCEPT !.parsed = Len(data)]
    ELSE IF data[i] = "bad"
    THEN [st EXCEPT !.errno = [k |-> "invalid", name |-> ""], !.parsed = i - 1]
    ELSE LET st1 == call_http_cb(st, data[i], raising)
         IN IF st1.ret # 0
            THEN [st1 EXCEPT !.errno = [k |-> "cb", name |-> data[i]], !.parsed = i]
            ELSE http_parser_execute(st1, data, i + 1, raising)

\* HTTPParser.execute(data) on parser p: what the call raised or returned,
\* and the parser after it, _callback_exception having cleared every
\* last_exception on the way out.
execute(p, data) ==
    LET st == http_parser_execute(
                  [errno |-> p.errno, last_exception |-> p.last_exception,
                   raisedIn |-> {}, ret |-> 0, parsed |-> 0], data, 1, p.raising)
        le == st.last_exception
        result ==
            IF st.parsed # Len(data)
            THEN IF st.errno.k = "cb"
                 THEN IF le[st.errno.name] = None
                      THEN [k |-> "raise", what |-> [k |-> "TypeError", by |-> "raise None"]]
                      ELSE [k |-> "raise", what |-> le[st.errno.name]]
                 ELSE [k |-> "raise", what |-> [k |-> "HTTPParserError", by |-> ""]]
            ELSE IF le["on_headers_complete"] # None
            THEN [k |-> "raise", what |-> le["on_headers_complete"]]
            ELSE IF le["on_message_complete"] # None
            THEN [k |-> "raise", what |-> le["on_message_complete"]]
            ELSE [k |-> "return", what |-> [k |-> "int", by |-> ""]]
    IN [p EXCEPT !.errno = st.errno, !.last_exception = NoException,
                 !.result = result, !.raisedIn = st.raisedIn]

\* HTTPParser(parser_type) of a subclass that overrides the callbacks in
\* raising to raise; input is what the peer will send.
HTTPParser(type, raising, input) ==
    [type |-> type, raising |-> raising, input |-> input,
     errno |-> [k |-> "ok", name |-> ""], last_exception |-> NoException,
     result |-> None, raisedIn |-> {}]

\* The owner passes the next bytes received, any number of lexemes, to execute.
Execute ==
    /\ hp.input # <<>>
    /\ \E n \in 1..Len(hp.input) :
         hp' = execute([hp EXCEPT !.input = SubSeq(@, n + 1, Len(@))],
                       SubSeq(hp.input, 1, n))
    /\ UNCHANGED << connVars, envVars, routerVars, reqVars, srv >>

\* The subclasses of the model: no callback raises, or one does.
Subclasses == {{}} \cup {{name} : name \in CALLBACKS}

ParserInit ==
    hp \in {HTTPParser(type, raising, input) :
              type \in {"request"}, raising \in Subclasses,
              input \in ParserInputs("request")}
       \cup {HTTPParser(type, raising, input) :
              type \in {"response"}, raising \in Subclasses,
              input \in ParserInputs("response")}

\* ------------------------------------------------------------------ uv Server
\* Server(): the class defines __cinit__ and no __init__, so construction
\* runs no code of the class and the object has none of its attributes
\* (active_count is read only where servers is not Unset).  futures are the
\* futures wait_closed made, listeners the listening handles made so far and
\* closedListeners those whose _close was called.
Server ==
    [servers |-> Unset, waiters |-> Unset, active_count |-> 0,
     futures |-> <<>>, raised |-> "none", last |-> "new", wakeups |-> 0,
     listeners |-> 0, closedListeners |-> {}]

\* __cinit__(loop), when it is called on the object.
Server_cinit(s) ==
    [s EXCEPT !.servers = List(<<>>), !.waiters = List(<<>>), !.active_count = 0,
              !.raised = "none", !.last = "__cinit__"]

\* _add_server(srv) with a new listening handle.
Server_add_server(s) ==
    LET s0 == [s EXCEPT !.raised = "none", !.last = "_add_server"]
    IN IF s.servers = Unset THEN [s0 EXCEPT !.raised = "AttributeError"]
       ELSE IF s.servers = None THEN [s0 EXCEPT !.raised = "AttributeError"]
       ELSE [s0 EXCEPT !.listeners = @ + 1, !.servers = List(Append(@.v, s.listeners + 1))]

\* _wakeup: takes the waiter list, sets it to None and resolves the waiters
\* not yet done.
Server_wakeup(s) ==
    IF s.waiters = Unset THEN [s EXCEPT !.raised = "AttributeError"]
    ELSE IF s.waiters = None THEN [s EXCEPT !.waiters = None, !.raised = "TypeError",
                                            !.wakeups = @ + 1]
    ELSE [s EXCEPT !.waiters = None, !.wakeups = @ + 1,
                   !.futures = [i \in DOMAIN @ |->
                                   IF \E j \in DOMAIN s.waiters.v : s.waiters.v[j] = i
                                   THEN "done" ELSE @[i]]]

Server_attach(s) ==
    LET s0 == [s EXCEPT !.raised = "none", !.last = "_attach"]
    IN IF s.servers = Unset THEN [s0 EXCEPT !.raised = "AttributeError"]
       ELSE IF s.servers = None THEN [s0 EXCEPT !.raised = "AssertionError"]
       ELSE [s0 EXCEPT !.active_count = @ + 1]

\* _detach that wakes the waiters at 0 whether or not close was called.
Server_detach_wakes_unclosed(s) ==
    LET s0 == [s EXCEPT !.raised = "none", !.last = "_detach"]
    IN IF s.servers = Unset THEN [s0 EXCEPT !.raised = "AttributeError"]
       ELSE IF ~(s.active_count > 0) THEN [s0 EXCEPT !.raised = "AssertionError"]
       ELSE LET s1 == [s0 EXCEPT !.active_count = @ - 1]
            IN IF s1.active_count = 0 THEN Server_wakeup(s1) ELSE s1

Server_detach(s) ==
    LET s0 == [s EXCEPT !.raised = "none", !.last = "_detach"]
    IN IF s.servers = Unset THEN [s0 EXCEPT !.raised = "AttributeError"]
       ELSE IF ~(s.active_count > 0) THEN [s0 EXCEPT !.raised = "AssertionError"]
       ELSE LET s1 == [s0 EXCEPT !.active_count = @ - 1]
            IN IF s1.active_count = 0 /\ s1.servers = None THEN Server_wakeup(s1) ELSE s1

\* wait_closed up to its await: returns at once, or registers a new future
\* and waits for it.
Server_wait_closed(s) ==
    LET s0 == [s EXCEPT !.raised = "none", !.last = "wait_closed returned"]
    IN IF s.servers = Unset THEN [s0 EXCEPT !.raised = "AttributeError", !.last = "wait_closed"]
       ELSE IF s.servers = None \/ s.waiters = None THEN s0
       ELSE [s0 EXCEPT !.futures = Append(@, "pending"),
                       !.waiters = List(Append(@.v, Len(s.futures) + 1)),
                       !.last = "wait_closed waiting"]

Server_close(s) ==
    LET s0 == [s EXCEPT !.raised = "none", !.last = "close"]
    IN IF s.servers = Unset THEN [s0 EXCEPT !.raised = "AttributeError"]
       ELSE IF s.servers = None THEN s0
       ELSE LET s1 == [s0 EXCEPT !.servers = None,
                                 !.closedListeners =
                                     @ \cup {s.servers.v[i] : i \in DOMAIN s.servers.v}]
            IN IF s1.active_count = 0 THEN Server_wakeup(s1) ELSE s1

ServerInit == srv = Server

Cinit ==
    /\ srv.servers = Unset
    /\ srv' = Server_cinit(srv)
    /\ UNCHANGED << connVars, envVars, routerVars, reqVars, hp >>

AddServer ==
    /\ srv.listeners < MaxServers
    /\ srv' = Server_add_server(srv)
    /\ UNCHANGED << connVars, envVars, routerVars, reqVars, hp >>

Attach ==
    /\ srv.active_count < MaxActive
    /\ srv' = Server_attach(srv)
    /\ UNCHANGED << connVars, envVars, routerVars, reqVars, hp >>

Detach ==
    /\ srv' = Server_detach(srv)
    /\ UNCHANGED << connVars, envVars, routerVars, reqVars, hp >>

WaitClosed ==
    /\ Len(srv.futures) < MaxWaiters
    /\ srv' = Server_wait_closed(srv)
    /\ UNCHANGED << connVars, envVars, routerVars, reqVars, hp >>

Close ==
    /\ srv' = Server_close(srv)
    /\ UNCHANGED << connVars, envVars, routerVars, reqVars, hp >>

ServerNext ==
    \/ Cinit
    \/ AddServer
    \/ Attach
    \/ Detach
    \/ WaitClosed
    \/ Close

\* No on_body call and no access of request.data has been made.
RequestInit ==
    /\ chunks = <<>>
    /\ reads = <<>>

\* A parser that is given nothing, a Server nobody uses.
LibInit ==
    /\ hp = HTTPParser("request", {}, <<>>)
    /\ srv = Server

\* One connection: a peer with or without a peer name sends a stream.
Init ==
    /\ ProtocolInit
    /\ peer \in BOOLEAN
    /\ sent \in Streams
    /\ stream = WireAll(sent, 1)
    /\ RouterInit
    /\ not_found = not_found_handler
    /\ RequestInit
    /\ LibInit

ConnectionMade ==
    /\ ~made
    /\ made' = TRUE
    /\ registered' = TRUE
    /\ UNCHANGED << libVars, reqVars, connVars, lost, stopped, peer, sent, stream, fed, routerVars >>

\* The loop delivers the next n lexemes; it delivers nothing once the
\* transport is closed or lost.
DataReceived ==
    /\ made /\ ~closed /\ ~lost
    /\ \E n \in 1..Len(stream) :
         LET data == SubSeq(stream, 1, n)
         IN /\ Install(fatal_error(data_received([Conn EXCEPT !.cur = data[1].m], data)))
            /\ stream' = SubSeq(stream, n + 1, Len(stream))
            /\ fed' = fed \o data
    /\ UNCHANGED << libVars, reqVars, registered, made, lost, stopped, peer, sent, routerVars >>

\* text(...): the response Router.handler hands to response_writer.
text(m, body) == [m |-> m, what |-> body]

\* Dispatch unit i whose handler raised closing the transport itself.
HandlerDone_failure_closes ==
    /\ \E i \in 1..Len(tasks), st \in {"done", "failed"} :
         /\ tasks[i].st = "pending"
         /\ LET c == [Conn EXCEPT !.tasks[i].st = st, !.cur = tasks[i].m]
            IN Install(IF st = "failed" THEN transport_close(c)
                       ELSE response_writer(c, text(tasks[i].m, "")))
    /\ UNCHANGED << libVars, reqVars, envVars, routerVars >>

\* The handler of dispatch unit i returns, or raises and Router.handler puts
\* text('error') in its place; Router.handler calls response_writer.  Units
\* finish in any order.
HandlerDone ==
    /\ \E i \in 1..Len(tasks), st \in {"done", "failed"} :
         /\ tasks[i].st = "pending"
         /\ Install(response_writer([Conn EXCEPT !.tasks[i].st = st, !.cur = tasks[i].m],
                                    text(tasks[i].m, IF st = "failed" THEN "error" ELSE "")))
    /\ UNCHANGED << libVars, reqVars, envVars, routerVars >>

\* connection_lost without the discard from the registry.
ConnectionLost_keeps_registry ==
    /\ made /\ ~lost
    /\ registered' = registered
    /\ lost' = TRUE
    /\ Install([cleanup(Conn) EXCEPT !.closed = TRUE])
    /\ UNCHANGED << libVars, reqVars, made, stopped, peer, sent, stream, fed, routerVars >>

ConnectionLost ==
    /\ made /\ ~lost
    /\ registered' = FALSE
    /\ lost' = TRUE
    /\ Install([cleanup(Conn) EXCEPT !.closed = TRUE])
    /\ UNCHANGED << libVars, reqVars, made, stopped, peer, sent, stream, fed, routerVars >>

\* The owner of the connection calls close_if_idle on an open connection.
CloseIfIdle ==
    /\ made /\ ~lost /\ ~closed
    /\ Install(close_if_idle(Conn).c)
    /\ UNCHANGED << libVars, reqVars, envVars, routerVars >>

\* The owner of the Signal sets stopped.
SignalStop ==
    /\ ~stopped
    /\ stopped' = TRUE
    /\ UNCHANGED << libVars, reqVars, connVars, registered, made, lost, peer, sent, stream, fed, routerVars >>

Next ==
    \/ ConnectionMade
    \/ DataReceived
    \/ HandlerDone
    \/ ConnectionLost
    \/ SignalStop
    \/ CloseIfIdle

Spec == Init /\ [][Next]_vars

\* The loop delivers the bytes that have arrived and runs the tasks it holds;
\* handlers terminate.  The peer and the owner of the signal owe nothing.
LiveSpec == Spec /\ WF_vars(DataReceived) /\ WF_vars(HandlerDone)

\* ------------------------------------------------------------------ router actions
\* Router.register appending the route before its template is compiled.
Register_appends_first ==
    /\ mres = "idle"
    /\ Len(routes) < MaxRoutes
    /\ \E tpl \in Templates, router \in Routers :
         LET rr == regexp(tpl)
         IN /\ regErr' = rr.err
            /\ regTpl' = tpl
            /\ routes' = Append(routes, Route(router, Len(routes) + 1, HandlerOf(router), rr))
    /\ UNCHANGED << libVars, reqVars, not_found, mstate, mpath, mi, mres, tried, dcall, dres,
                    connVars, envVars >>

\* router.register(path, handler): Route(...).path(path) raises before the
\* append when regexp raises.  self.routes is the list of the class, the one
\* list every instance appends to.
Register ==
    /\ mres = "idle"
    /\ Len(routes) < MaxRoutes
    /\ \E tpl \in Templates, router \in Routers :
         LET rr == regexp(tpl)
         IN /\ regErr' = rr.err
            /\ regTpl' = tpl
            /\ routes' = IF rr.err = "none"
                         THEN Append(routes, Route(router, Len(routes) + 1,
                                                   HandlerOf(router), rr))
                         ELSE routes
    /\ UNCHANGED << libVars, reqVars, not_found, mstate, mpath, mi, mres, tried, dcall, dres,
                    connVars, envVars >>

\* router.register with a template of literal text.
RegisterLiteral ==
    /\ mres = "idle"
    /\ Len(routes) < MaxRoutes
    /\ \E tpl \in LiteralTemplates, router \in Routers :
         LET rr == regexp(tpl)
         IN /\ regErr' = rr.err
            /\ regTpl' = tpl
            /\ routes' = IF rr.err = "none"
                         THEN Append(routes, Route(router, Len(routes) + 1,
                                                   HandlerOf(router), rr))
                         ELSE routes
    /\ UNCHANGED << libVars, reqVars, not_found, mstate, mpath, mi, mres, tried, dcall, dres,
                    connVars, envVars >>

\* handler of either Router instance: match = RouteMatch(), then
\* self.match(request, match) over self.routes, the list of the class.
MatchBegin ==
    /\ mres = "idle"
    /\ \E path \in Paths : mpath' = path
    /\ mstate' = RouteMatch
    /\ mi' = 1
    /\ mres' = "running"
    /\ tried' = <<>>
    /\ regErr' = "none"
    /\ regTpl' = <<>>
    /\ UNCHANGED << libVars, reqVars, routes, not_found, dcall, dres, connVars, envVars >>

\* One turn of the loop of Router.match: return True at the first route that
\* matches.
MatchRoute ==
    /\ mres = "running"
    /\ mi <= Len(routes)
    /\ LET r == Route_match(routes[mi], mpath, mstate)
       IN /\ mstate' = r.match
          /\ tried' = Append(tried, [id |-> routes[mi].id, ok |-> r.ok])
          /\ IF r.ok THEN mres' = "True" /\ mi' = mi
             ELSE mres' = mres /\ mi' = mi + 1
    /\ UNCHANGED << libVars, reqVars, routes, not_found, regErr, regTpl, mpath, dcall, dres,
                    connVars, envVars >>

\* The end of Router.match reporting success without naming a handler.
MatchNotFound_without_handler ==
    /\ mres = "running"
    /\ mi > Len(routes)
    /\ mstate' = mstate
    /\ mres' = IF ~Falsy(not_found) THEN "True" ELSE "False"
    /\ UNCHANGED << libVars, reqVars, routes, not_found, regErr, regTpl, mpath, mi, tried, dcall, dres,
                    connVars, envVars >>

\* After the loop: the not-found handler, if there is one.
MatchNotFound ==
    /\ mres = "running"
    /\ mi > Len(routes)
    /\ IF ~Falsy(not_found)
       THEN mstate' = [mstate EXCEPT !.handler = not_found] /\ mres' = "True"
       ELSE mstate' = mstate /\ mres' = "False"
    /\ UNCHANGED << libVars, reqVars, routes, not_found, regErr, regTpl, mpath, mi, tried, dcall, dres,
                    connVars, envVars >>

\* handler(request, *match.vars): a str is unpacked into its characters, a
\* tuple into its members, the empty list into nothing.
Unpack(x) ==
    IF x.k = "str" THEN [i \in DOMAIN x.v |-> << x.v[i] >>] ELSE x.v

\* The parameters after request that the handler in the RouteMatch was
\* written with: one per name of its route's template, none for not_found.
Parameters(match) ==
    IF Falsy(match.route) THEN 0
    ELSE LET r == CHOOSE r \in {routes[i] : i \in DOMAIN routes} : r.id = match.route.id
         IN Len(r.matchers[1].names)

\* Router.handler after self.match: the handler is taken from the RouteMatch
\* and called; with match returning False the name handler is unbound.
Invoke ==
    /\ mres \in {"True", "False"}
    /\ dcall = None /\ dres = "none"
    /\ IF mres = "False"
       THEN dres' = "UnboundLocalError" /\ dcall' = dcall
       ELSE /\ dcall' = [k |-> "call",
                         handler |-> IF Falsy(mstate.handler) THEN not_found
                                     ELSE mstate.handler,
                         args |-> Unpack(mstate.vars)]
            /\ dres' = dres
    /\ UNCHANGED << libVars, reqVars, routes, not_found, regErr, regTpl, mstate, mpath, mi, mres, tried,
                    connVars, envVars >>

\* The handler returns its response, which goes to response_writer; the call
\* binds only when the arguments are as many as the parameters.
HandlerReturns ==
    /\ dcall # None /\ dres = "none"
    /\ Len(dcall.args) = Parameters(mstate)
    /\ dres' = "response"
    /\ UNCHANGED << libVars, reqVars, routes, not_found, regErr, regTpl, mstate, mpath, mi, mres, tried,
                    dcall, connVars, envVars >>

\* The call raises (TypeError for the arguments, or the handler's own
\* exception): except Exception gives response_writer text('error').
HandlerRaises ==
    /\ dcall # None /\ dres = "none"
    /\ dres' = "error"
    /\ UNCHANGED << libVars, reqVars, routes, not_found, regErr, regTpl, mstate, mpath, mi, mres, tried,
                    dcall, connVars, envVars >>

\* Router.handler is over; its RouteMatch is dropped with it.
MatchReturn ==
    /\ dres # "none"
    /\ mres' = "idle"
    /\ mi' = 0
    /\ mstate' = RouteMatch
    /\ mpath' = <<>>
    /\ tried' = <<>>
    /\ dcall' = None
    /\ dres' = "none"
    /\ UNCHANGED << libVars, reqVars, routes, not_found, regErr, regTpl, connVars, envVars >>

RouterNext ==
    \/ Register
    \/ MatchBegin
    \/ MatchRoute
    \/ MatchNotFound
    \/ Invoke
    \/ HandlerReturns
    \/ HandlerRaises
    \/ MatchReturn

\* The router with routes of literal text only.
LiteralNext ==
    \/ RegisterLiteral
    \/ MatchBegin
    \/ MatchRoute
    \/ MatchNotFound
    \/ Invoke
    \/ HandlerReturns
    \/ HandlerRaises
    \/ MatchReturn

\* One router, its owner having kept or removed the not-found handler; no
\* connection takes part.
RouterSpecInit ==
    /\ ProtocolInit
    /\ peer = TRUE
    /\ sent = <<>>
    /\ stream = <<>>
    /\ RouterInit
    /\ not_found \in {not_found_handler, None}
    /\ RequestInit
    /\ LibInit

\* ------------------------------------------------------------------ request
\* The value of a decimal numeral.
RECURSIVE DecimalValue(_)
DecimalValue(s) ==
    IF s = <<>> THEN 0
    ELSE LET d == CHOOSE n \in 0..9 : ToString(n) = s[Len(s)]
         IN 10 * DecimalValue(SubSeq(s, 1, Len(s) - 1)) + d

\* json.loads on the bodies of the model: a numeral without a leading zero is
\* a document, its value the number; None and everything else raise.
json_loads(body) ==
    IF /\ body # None /\ body.v # <<>>
       /\ \A i \in DOMAIN body.v : body.v[i] \in Digits
       /\ (Len(body.v) > 1 => body.v[1] # "0")
    THEN [k |-> "int", v |-> DecimalValue(body.v)]
    ELSE [k |-> "raise", what |-> "ValueError"]

\* The property Request.data: what the access gives and the request after it.
\* With a query the URL object goes to parse_qsl, which raises; with
\* parsed_json None the body is parsed, stored and returned, a failure raising
\* InvalidUsage; with parsed_json set no return statement is reached.
data(r) ==
    IF r.query_string # None
    THEN [ret |-> [k |-> "raise", what |-> "AttributeError"], r |-> r]
    ELSE IF r.parsed_json = None
    THEN LET parsed == json_loads(r.body)
         IN IF parsed.k = "raise"
            THEN [ret |-> [k |-> "raise", what |-> "InvalidUsage"], r |-> r]
            ELSE [ret |-> parsed, r |-> [r EXCEPT !.parsed_json = parsed]]
    ELSE [ret |-> None, r |-> r]

RequestUrls == { << "/", "b" >>, << "/", "b", "?", "q" >> }
BodyChunks == { <<>>, << "1" >>, << "2" >>, << "x" >>, << "1", "2" >> }

\* on_headers_complete builds the Request of a POST.
RequestCreated ==
    /\ request = Unset
    /\ \E u \in RequestUrls :
         Install([Conn EXCEPT !.request = Request(u, CIMultiDict(<<>>), "1.1", "POST", 1, "init")])
    /\ UNCHANGED << libVars, envVars, routerVars, reqVars >>

\* The tokenizer reports a part of the body, before the handler runs.
OnBody ==
    /\ request \notin {Unset, None}
    /\ reads = <<>>
    /\ Len(chunks) < MaxChunks
    /\ \E chunk \in BodyChunks :
         /\ Install(on_body(Conn, chunk))
         /\ chunks' = Append(chunks, chunk)
    /\ UNCHANGED << libVars, envVars, routerVars, reads >>

\* A handler evaluates request.data.
ReadData ==
    /\ request \notin {Unset, None}
    /\ Len(reads) < MaxReads
    /\ LET d == data(request)
       IN /\ Install([Conn EXCEPT !.request = d.r])
          /\ reads' = Append(reads, d.ret)
    /\ UNCHANGED << libVars, envVars, routerVars, chunks >>

RequestNext ==
    \/ RequestCreated
    \/ OnBody
    \/ ReadData

\* Everything but the library objects, at rest.
QuietInit ==
    /\ ProtocolInit
    /\ peer = TRUE
    /\ sent = <<>>
    /\ stream = <<>>
    /\ RouterInit
    /\ not_found = not_found_handler
    /\ RequestInit

\* A parser of either type, with any one callback overridden to raise, and an
\* input to feed it.
ParserSpecInit ==
    /\ QuietInit
    /\ ParserInit
    /\ srv = Server

ParserSpec == ParserSpecInit /\ [][Execute]_vars

\* A Server object as construction leaves it.
ServerSpecInit ==
    /\ QuietInit
    /\ ServerInit
    /\ hp = HTTPParser("request", {}, <<>>)

ServerSpec == ServerSpecInit /\ [][ServerNext]_vars

LiteralSpec == RouterSpecInit /\ [][LiteralNext]_vars

RequestSpec == RouterSpecInit /\ [][RequestNext]_vars

RouterSpec == RouterSpecInit /\ [][RouterNext]_vars

\* ------------------------------------------------------------------ claims
Errors(m) == {i \in DOMAIN out : out[i].kind = "error" /\ out[i].m = m}
Responses == SelectSeq(out, LAMBDA e : e.kind = "response")

\* C1: a message found above request_max_size (by its bytes or by its declared
\* Content-Length) gets exactly one error response, which is PayloadTooLarge,
\* the transport is closed exactly once, and no normal response is written
\* for that message.
C1_ExactlyOnePayloadTooLarge ==
    \A m \in over \cup overHdr :
        /\ Cardinality(Errors(m)) = 1
        /\ \A i \in Errors(m) : out[i].what = "PayloadTooLarge"
        /\ closeCalls = 1
        /\ \A i \in DOMAIN out : ~(out[i].kind = "response" /\ out[i].m = m)

\* C2: no dispatch unit exists for a message during which data_received
\* found the received bytes above request_max_size.
C2_NoDispatchAfterOverflow ==
    \A i \in DOMAIN tasks : tasks[i].m \notin over

\* The connection as connection_made leaves it.
FreshConn ==
    [parser |-> HttpRequestParser, request |-> Unset, url |-> Bytes(<<>>),
     headers |-> List(<<>>), task |-> 0, size |-> 0, out |-> <<>>, closed |-> FALSE,
     closeCalls |-> 0, tasks |-> <<>>, raised |-> "none", logged |-> 0,
     over |-> {}, overHdr |-> {}, cur |-> 0]

OneBuffer == data_received(FreshConn, fed)

Reqs(ts) == [i \in DOMAIN ts |-> ts[i].req]

\* C3: as long as the bytes were only parsed (no error, no response yet), the
\* Requests handed to dispatch are those the same bytes give when they are
\* delivered to a new connection as one buffer.
C3_FragmentationInvariant ==
    (/\ fed # <<>> /\ ~lost /\ raised = "none" /\ out = <<>>
     /\ OneBuffer.raised = "none" /\ OneBuffer.out = <<>>)
    => Reqs(tasks) = Reqs(OneBuffer.tasks)

\* A step in which transport.write is called once, with a normal response.
ResponseWritten ==
    /\ Len(out') = Len(out) + 1
    /\ out'[Len(out')].kind = "response"

Cleared ==
    /\ parser = None /\ request = None /\ url = None /\ headers = None
    /\ task = 0 /\ size = 0

Pairs(hdrs) == [i \in DOMAIN hdrs |-> << hdrs[i].name, hdrs[i].value >>]

\* Request r holds what message msg alone gives: its own headers and then the
\* entries of remote, a part of its own url, its own body.
OwnContent(r, msg, remote) ==
    /\ r.headers = CIMultiDict(Pairs(msg.hdrs) \o remote)
    /\ r.url # <<>> /\ IsSuffix(r.url, msg.url)
    /\ r.body = IF msg.body = <<>> THEN None ELSE Bytes(msg.body)
    /\ r.method = msg.method /\ r.version = msg.ver

RemoteAddr == << << "Remote-Addr", "peer" >> >>

\* The body of msg is as long as its Content-Length says.
Framed(msg) ==
    \A i \in DOMAIN msg.hdrs :
        msg.hdrs[i].name = "Content-Length" => msg.hdrs[i].n = Len(msg.body)

\* The dispatch units of the messages that were the first a tokenizer created
\* after a keep-alive reset has parsed, the message being sent with the body
\* length it declares.
AfterReset ==
    {i \in DOMAIN tasks : tasks[i].req.first = "reset" /\ Framed(sent[tasks[i].m])}

C5_NothingAfterClosingResponse ==
    [][(\E i \in DOMAIN out : out[i].kind = "response" /\ ~out[i].keep_alive)
        => (fed' = fed /\ Len(tasks') = Len(tasks) /\ out' = out)]_vars

\* C6: a written response carries keep_alive = should_keep_alive() and not
\* stopped; response_writer calls transport.close exactly when keep_alive is
\* false, so the transport is closed after every response written while the
\* signal is set, and a keep-alive response leaves the transport as it was.
C6_CloseIffNotKeepAlive ==
    [][ResponseWritten =>
        LET e == out'[Len(out')]
        IN /\ e.keep_alive = (should_keep_alive(parser) /\ ~stopped)
           /\ closeCalls' = closeCalls + (IF e.keep_alive THEN 0 ELSE 1)
           /\ ~e.keep_alive => closed'
           /\ e.keep_alive => closed' = closed
           /\ stopped => closed']_vars

\* A response written while the signal is set, to a request whose tokenizer
\* would keep the connection alive, and a keep-alive response before it.
C6_Witness ==
    \E i, j \in DOMAIN out :
        /\ i < j
        /\ out[i].kind = "response" /\ out[i].keep_alive /\ ~out[i].afterClose
        /\ out[j].kind = "response" /\ out[j].sig /\ out[j].version = "1.1"
        /\ ~out[j].keep_alive /\ closed /\ closeCalls = 1

\* C7: the k-th response written is the response to the k-th completed message.
C7_ResponsesInArrivalOrder ==
    \A k \in DOMAIN Responses : Responses[k].m = tasks[k].m

\* ------------------------------------------------------------------ router claims
RouteById(id) == CHOOSE r \in {routes[i] : i \in DOMAIN routes} : r.id = id
TemplateOf(r) == r.matchers[1].template
Braceless(tpl) == \A i \in DOMAIN tpl : tpl[i] \notin {"{", "}"}

\* The brace level after the lexemes of tpl, -1 once a '}' had no '{' before it.
RECURSIVE BraceLevel(_, _)
BraceLevel(tpl, level) ==
    IF tpl = <<>> \/ level < 0 THEN level
    ELSE BraceLevel(Tail(tpl), CASE Head(tpl) = "{" -> level + 1
                                 [] Head(tpl) = "}" -> level - 1
                                 [] OTHER -> level)

Balanced(tpl) == BraceLevel(tpl, 0) = 0

\* C8: a route whose template has no braces accepts a path exactly when the
\* path is the template.
C8_LiteralMatchesOnlyItself ==
    \A j \in DOMAIN tried :
        Braceless(TemplateOf(RouteById(tried[j].id)))
            => (tried[j].ok <=> mpath = TemplateOf(RouteById(tried[j].id)))

\* What a template asks of a path: literal lexemes as they are, a segment
\* {name} one or more non-slash characters, {name:[0-9]+} one or more digits.
RECURSIVE RefParts(_)
RefParts(tpl) ==
    IF tpl = <<>> THEN <<>>
    ELSE IF Head(tpl) = "{"
    THEN LET close == CHOOSE i \in DOMAIN tpl : tpl[i] = "}" /\ \A j \in 1..(i - 1) : tpl[j] # "}"
             inner == SubSeq(tpl, 2, close - 1)
         IN << [lit |-> "", cls |-> IF "[0-9]+" \in {inner[i] : i \in DOMAIN inner}
                                    THEN "digit" ELSE "nonslash"] >>
            \o RefParts(SubSeq(tpl, close + 1, Len(tpl)))
    ELSE << [lit |-> Head(tpl), cls |-> ""] >> \o RefParts(Tail(tpl))

\* The capture tuples with which the whole of path from pos on fits parts k...
RECURSIVE RefSplits(_, _, _, _)
RefSplits(parts, k, path, pos) ==
    IF k > Len(parts) THEN IF pos = Len(path) + 1 THEN {<<>>} ELSE {}
    ELSE IF parts[k].cls = ""
    THEN IF pos <= Len(path) /\ path[pos] = parts[k].lit
         THEN RefSplits(parts, k + 1, path, pos + 1) ELSE {}
    ELSE UNION {{<< SubSeq(path, pos, pos + n - 1) >> \o rest :
                    rest \in RefSplits(parts, k + 1, path, pos + n)} :
                n \in {x \in 1..(Len(path) - pos + 1) :
                         \A q \in pos..(pos + x - 1) : InClass(path[q], parts[k].cls)}}

RefCaptures(tpl, path) == RefSplits(RefParts(tpl), 1, path, 1)

\* C9: a route with brace segments accepts exactly the paths whose segments
\* satisfy the segment patterns, and the pass that it wins yields the
\* captures in template order.
C9_SegmentsMatchExactly ==
    \A j \in DOMAIN tried :
        LET tpl == TemplateOf(RouteById(tried[j].id))
        IN (~Braceless(tpl) /\ Balanced(tpl)) =>
             /\ tried[j].ok <=> RefCaptures(tpl, mpath) # {}
             /\ tried[j].ok => \E caps \in RefCaptures(tpl, mpath) :
                                   \/ mstate.vars = [k |-> "tuple", v |-> caps]
                                   \/ Len(caps) = 1 /\ mstate.vars = [k |-> "str", v |-> caps[1]]

Accepting == {i \in DOMAIN routes : re_match(routes[i].matchers[1], mpath)}
First(S) == CHOOSE i \in S : \A j \in S : i <= j

\* C10: the route list is in the order of the register calls, a pass asks the
\* routes in that order, and when it returns the route, handler and vars of
\* the RouteMatch are those of the first accepting route; a field that a pass
\* has filled is not written again in that pass.
C10_FirstAcceptingRouteWins ==
    /\ [](/\ \A i, j \in DOMAIN routes : i < j => routes[i].id < routes[j].id
          /\ \A j \in DOMAIN tried : tried[j].id = routes[j].id
          /\ \A j \in DOMAIN tried : tried[j].ok => j = Len(tried)
          /\ (mres = "True" /\ Accepting # {}) =>
                LET w == routes[First(Accepting)]
                IN /\ Len(tried) = First(Accepting)
                   /\ mstate.route = [k |-> "RouteRef", id |-> w.id]
                   /\ mstate.handler = w.handler
                   /\ mstate.vars = findall(w.matchers[1], mpath)[1])
    /\ [][mres = "running" =>
            /\ ~Falsy(mstate.route) => mstate'.route = mstate.route
            /\ ~Falsy(mstate.handler) => mstate'.handler = mstate.handler
            /\ ~Falsy(mstate.vars) => mstate'.vars = mstate.vars]_vars

\* A pass has returned at the first of two routes that both accept the path
\* and have different handlers.
C10_Witness ==
    /\ mres = "True"
    /\ Cardinality(Accepting) >= 2
    /\ \A i, j \in Accepting : i # j => routes[i].handler # routes[j].handler
    /\ Len(tried) = 1 /\ tried[1].ok
    /\ mstate.handler = routes[1].handler

\* C11: when a not-found handler is configured and no route accepts the path,
\* Router.match returns True with the not-found handler in the RouteMatch, no
\* route and empty vars; with a handler configured it never returns False.
C11_NotFoundFallback ==
    ~Falsy(not_found) =>
        /\ mres # "False"
        /\ (mres = "True" /\ Accepting = {}) =>
              /\ mstate.handler = not_found
              /\ mstate.vars = List(<<>>)
              /\ mstate.route = None

\* Two registered routes have refused the path and the pass has returned.
C11_Witness ==
    /\ mres = "True"
    /\ Len(routes) = 2 /\ Len(tried) = 2 /\ ~tried[1].ok /\ ~tried[2].ok
    /\ mstate.handler = not_found_handler

\* C12: no route of the list has a template with unbalanced braces, be it
\* an unmatched '{' or an unmatched '}': register has refused them all.
C12_UnbalancedBracesRejected ==
    \A i \in DOMAIN routes : Balanced(TemplateOf(routes[i]))

\* tpl has a brace segment with no name: {} or {:pattern}.
Nameless(tpl) ==
    \E i \in 1..(Len(tpl) - 1) : tpl[i] = "{" /\ tpl[i + 1] \in {"}", ":"}

\* C13: a register call with a template that has a nameless brace segment
\* raises and leaves the route list as it was; no route of the list has such
\* a template.
C13_NamelessSegmentRejected ==
    /\ [][(mres = "idle" /\ mres' = "idle" /\ Nameless(regTpl'))
            => (regErr' = "ValueError" /\ routes' = routes)]_vars
    /\ [](\A i \in DOMAIN routes : ~Nameless(TemplateOf(routes[i])))

\* A register call with {:[0-9]+} has just failed on a router that has a route.
C13_Witness ==
    /\ regErr = "ValueError"
    /\ regTpl = << "/", "{", ":", "[0-9]+", "}" >>
    /\ Len(routes) = 1

\* The texts the groups of the winning route's pattern captured, in template
\* order; nothing for the not-found handler.
Captured ==
    IF Falsy(mstate.route) THEN <<>>
    ELSE LET r == RouteById(mstate.route.id)
         IN MatchFrom(r.matchers[1].items, 1, mpath, 1).caps

\* C14: the handler is called with the request and then one argument per
\* template parameter, each the text captured for it, in template order; a
\* route without parameters and the not-found handler get the request only.
C14_OneArgumentPerParameter ==
    dcall # None => dcall.args = Captured

\* A step in which the handler of dispatch unit i raises.
Fails(i) == i \in DOMAIN tasks /\ tasks[i].st = "pending" /\ tasks'[i].st = "failed"

\* C15: when a handler raises, nothing escapes the dispatch unit and
\* response_writer is called in the same step with the generic error text:
\* the response it writes is text('error'), and the transport is closed by
\* that step exactly when the response goes out with keep_alive false or
\* response_writer itself fails, the tokenizer or the request being gone, and
\* reports ServerError.
C15_HandlerExceptionBecomesErrorResponse ==
    [][\A i \in 1..MaxMsgs : Fails(i) =>
          /\ raised' = raised
          /\ Len(out') = Len(out) + 1
          /\ LET e == out'[Len(out')]
             IN /\ e.m = tasks[i].m
                /\ e.kind = "response" =>
                      /\ e.what = "error"
                      /\ closeCalls' = closeCalls + (IF e.keep_alive THEN 0 ELSE 1)
                      /\ e.keep_alive => closed' = closed
                /\ e.kind = "error" =>
                      /\ e.what = "ServerError"
                      /\ (parser = None \/ request = None)]_vars

\* A handler has raised, its error text went out with keep_alive true, and
\* the transport is open.
C15_Witness ==
    \E i \in DOMAIN tasks, j \in DOMAIN out :
        /\ tasks[i].st = "failed"
        /\ out[j].m = tasks[i].m /\ out[j].kind = "response" /\ out[j].what = "error"
        /\ out[j].keep_alive /\ ~closed

\* C16: the routes a match pass asks were all registered on one Router
\* instance, the one whose pass it is.
C16_RouteTablePerInstance ==
    \E router \in Routers :
        \A j \in DOMAIN tried : RouteById(tried[j].id).parent = router

\* C17: the url of a Request is the whole url of its message, the fragments
\* that on_url was given for the message put together in order.
C17_UrlIsConcatenationOfFragments ==
    \A i \in DOMAIN tasks : tasks[i].req.url = sent[tasks[i].req.m].url

\* The Content-Length header above request_max_size, as on_header gets it.
BigHeader == << CLBigHdr.name, CLBigHdr.value >>

\* C18: the header list never holds a Content-Length header whose value is
\* above request_max_size: on_header fails with PayloadTooLarge instead of
\* appending it.
C18_OversizedContentLengthNotAppended ==
    headers # None => \A i \in DOMAIN headers.v : headers.v[i] # BigHeader

\* C19: the tokenizer's error never leaves data_received: it is answered
\* with an InvalidUsage response and the closing of the transport.
C19_TokenizerErrorAnswered ==
    /\ raised # "httptools.HttpParserError"
    /\ (fed # <<>> /\ sent[fed[1].m].bad) =>
          \E i \in DOMAIN out : out[i].kind = "error" /\ out[i].what = "InvalidUsage"

\* C20: once write_error has been executed (here: for a message found above
\* request_max_size), transport.close has been called.
C20_WriteErrorAlwaysCloses ==
    (over \cup overHdr) # {} => closeCalls >= 1

\* C21: an open connection does not stay open for good: idle for longer than
\* the request timeout, it gets the RequestTimeout error response, which
\* closes the transport (unless it is lost or closed before).
C21_IdleConnectionTimesOut ==
    (made /\ ~lost /\ ~closed)
        ~> (lost \/ closed \/ \E i \in DOMAIN out : out[i].what = "RequestTimeout")

\* C23: once connection_lost has run, the connection is out of the registry and
\* its tokenizer, request, url, header list and dispatch unit are released and
\* the size counter is 0, whatever the connection was doing, and it stays so
\* when a dispatch unit in flight completes afterwards.
C23_LostConnectionIsReleased ==
    lost => ~registered /\ Cleared

\* A connection lost with a dispatch in flight, after part of a further
\* message has arrived.
C23_Witness ==
    /\ lost /\ ~registered
    /\ \E i \in DOMAIN tasks : tasks[i].st = "pending"
    /\ Len(fed) > 0 /\ fed[Len(fed)].m # tasks[Len(tasks)].m

\* A step of response_writer's keep-alive path: the response is written with
\* keep_alive true and cleanup runs.
KeepAliveReset ==
    /\ ResponseWritten
    /\ out'[Len(out')].keep_alive

\* C24: the per-message state of a completed message is reset once, by the
\* keep-alive path of its own response, or torn down by loss or fatal error,
\* never both: the cleanup of the keep-alive path runs on the state of the
\* message it has answered, so no message still to be answered loses its state
\* to it and is torn down afterwards.
C24_CleanupOncePerMessage ==
    [][KeepAliveReset => request.m = out'[Len(out')].m]_vars

\* The header names of the model in lower case.
lower(name) ==
    CASE name = "Host" -> "host"
      [] name = "Content-Length" -> "content-length"
      [] name = "Remote-Addr" -> "remote-addr"
      [] OTHER -> name

\* The spellings of a header name a handler may look up.
LetterCases(name) == {name, lower(name)}

\* C25: on the Request handed to a handler, looking a received header's name
\* up in any letter case returns its value, and the headers of the message
\* are kept in the order they arrived in.
C25_HeaderLookupIgnoresCase ==
    \A i \in DOMAIN tasks :
        LET msg == sent[tasks[i].m]
            hs == tasks[i].req.headers
        IN tasks[i].req.first = "init" /\ tasks[i].m = 1 =>
             /\ \A j \in DOMAIN msg.hdrs : \A key \in LetterCases(msg.hdrs[j].name) :
                    getitem(hs, key) = [k |-> "value", v |-> msg.hdrs[j].value]
             /\ \A j \in DOMAIN msg.hdrs : hs[j][1] = msg.hdrs[j].name

\* C26: for a request without query string whose body is a JSON document,
\* every access of data gives the value the first access gave.
C26_DataIsCached ==
    (/\ request \notin {Unset, None}
     /\ reads # <<>> /\ request.query_string = None
     /\ reads[1].k = "int")
        => \A i \in DOMAIN reads : reads[i] = reads[1]

\* C27: the body is None until the first on_body call and from then on the
\* concatenation of the chunks of all on_body calls, in order, empty chunks
\* included.
C27_BodyIsConcatenationOfChunks ==
    request \notin {Unset, None} =>
        request.body = IF chunks = <<>> THEN None ELSE Bytes(Flatten(chunks))

\* Three chunks, one of them empty and coming first, the others not.
C27_Witness ==
    /\ request \notin {Unset, None}
    /\ Len(chunks) = 3 /\ chunks[1] = <<>> /\ chunks[2] # <<>> /\ chunks[3] # <<>>
    /\ request.body = Bytes(chunks[2] \o chunks[3])

\* C28: the literal text of a template is matched character for character: a
\* route whose template has no braces accepts only paths that start with the
\* characters of the template themselves, a '.' of the template included.
C28_LiteralTextMatchedVerbatim ==
    \A j \in DOMAIN tried :
        LET tpl == TemplateOf(RouteById(tried[j].id))
        IN Braceless(tpl) /\ tried[j].ok
             => Len(mpath) >= Len(tpl) /\ SubSeq(mpath, 1, Len(tpl)) = tpl

MessageInProgress ==
    /\ fed # <<>>
    /\ LET m == fed[Len(fed)].m
       IN Cardinality({i \in DOMAIN fed : fed[i].m = m}) < Len(Wire(sent[m], m))

DispatchInFlight == \E i \in DOMAIN tasks : tasks[i].st = "pending"

\* C30: on an open connection close_if_idle returns True (and closes) exactly
\* when no message is in progress and no dispatch is in flight, a connection
\* that has received nothing included.
C30_CloseIfIdleTellsIdle ==
    made /\ ~lost /\ ~closed
        => (close_if_idle(Conn).ret <=> ~MessageInProgress /\ ~DispatchInFlight)

\* C31: when a callback raises while execute processes data, execute raises
\* that exception to its caller, and no recorded exception is left for the
\* next call.
C31_CallbackExceptionReraised ==
    /\ \A name \in hp.raisedIn :
           hp.result = [k |-> "raise", what |-> CallbackError(name)]
    /\ hp.last_exception = NoException

\* write_error has failed on this connection: it ran for a message above the
\* cap when no Request had ever been assigned, and reading self.request raised.
WriteErrorFailed == request = Unset /\ (over \cup overHdr) # {}

\* C32: a failure inside write_error is terminal and not retried: the call
\* returns without write_error being entered again for it (no recursion to
\* the interpreter's limit) and the failure is logged.
C32_WriteErrorFailureIsTerminal ==
    WriteErrorFailed => raised = "none" /\ logged >= 1

\* write_error ran for the first message before its headers were complete,
\* so before any Request was built on the connection.
ErrorBeforeAnyRequest == 1 \in overHdr \/ (1 \in over /\ request = Unset)

\* C33: write_error invoked before any Request has been built writes the
\* error response with the default version 1.1 and closes the transport.
C33_DefaultVersionBeforeAnyRequest ==
    ErrorBeforeAnyRequest =>
        /\ \E i \in DOMAIN out :
               out[i].kind = "error" /\ out[i].m = 1 /\ out[i].version = "1.1"
        /\ closeCalls >= 1

\* C34: the dispatch unit of a message ends by calling response_writer, with
\* the handler's response or with the generic error response, also when no
\* route accepts the path, with or without a not-found handler: Router.handler
\* never ends in an exception of its own, after which response_writer can no
\* longer be called for the message.
C34_DispatchEndsInResponseWriter ==
    dres \in {"none", "response", "error"}

\* C35: closed is absorbing: once the transport has been closed, by an error
\* response, a closing response or the loss of the transport, nothing is
\* written to it, the tokenizer is not fed and no dispatch unit is created.
C35_ClosedIsAbsorbing ==
    [][closed => (out' = out /\ fed' = fed /\ Len(tasks') = Len(tasks))]_vars

\* C36: every dispatch unit that was created and has not finished is the one
\* _request_handler_task refers to, so at most one is in flight.
C36_StoredHandleIsTheUnitInFlight ==
    \A i \in DOMAIN tasks : tasks[i].st = "pending" => task = i

\* C37: after connection_lost nothing is written to the transport: a dispatch
\* unit that was in flight writes neither a response nor an error response
\* when its handler completes.
C37_NoOutputAfterLoss ==
    [][lost => out' = out]_vars

\* The keep-alive wish of a message by itself: HTTP/1.1 without
\* Connection: close.
WantsKeepAlive(msg) ==
    /\ msg.ver = "1.1"
    /\ \A j \in DOMAIN msg.hdrs : ~(msg.hdrs[j].name = "Connection" /\ msg.hdrs[j].value = "close")

\* C38: a response is written with the HTTP version of the message it answers
\* and with the keep-alive decision of that message (its wish, and the signal
\* not set), whatever was parsed after that message.
C38_ResponseCarriesItsOwnMessage ==
    \A i \in DOMAIN out :
        out[i].kind = "response" =>
            /\ out[i].version = sent[out[i].m].ver
            /\ out[i].keep_alive = (WantsKeepAlive(sent[out[i].m]) /\ ~out[i].sig)

\* The lexemes received so far of the message the last one received belongs to.
ReceivedOfCurrent == Cardinality({i \in DOMAIN fed : fed[i].m = fed[Len(fed)].m})

\* C39: while a message is in progress on an open connection,
\* _total_request_size is the number of bytes received for that message.
C39_SizeCountsCurrentMessage ==
    (~lost /\ ~closed /\ raised = "none" /\ MessageInProgress)
        => size = ReceivedOfCurrent

\* C40: under any order of _attach, _detach, close and wait_closed:
\* _active_count is never negative; the waiters are woken at most once, and
\* only with close called and _active_count 0; every waiter registered before
\* that moment is resolved by it and none is resolved otherwise; a
\* wait_closed made after it returns at once and registers nothing; a
\* repeated close changes nothing.  (On an object on which __cinit__ was not
\* called every method raises AttributeError and changes nothing; the assert
\* statements of _attach and _detach are taken as executed.)
C40_ServerWakesWaitersOnce ==
    /\ srv.active_count >= 0
    /\ srv.wakeups <= 1
    /\ srv.wakeups = 1 <=> srv.waiters = None
    /\ srv.wakeups = 1 => srv.servers = None /\ srv.active_count = 0
    /\ \A f \in DOMAIN srv.futures : srv.futures[f] = "done" <=> srv.wakeups = 1
    /\ srv.waiters = None =>
          Server_wait_closed(srv) =
              [srv EXCEPT !.raised = "none", !.last = "wait_closed returned"]
    /\ srv.servers = None =>
          Server_close(srv) = [srv EXCEPT !.raised = "none", !.last = "close"]

\* Two waiters registered, a connection attached, close called, and the
\* last _detach has woken both.
C40_Witness ==
    /\ srv.last = "_detach" /\ srv.raised = "none" /\ srv.wakeups = 1
    /\ Len(srv.futures) = 2
    /\ \A f \in DOMAIN srv.futures : srv.futures[f] = "done"

====
